---- MODULE Spec2Model ----
(***************************************************************************)
(* A model of the Forth-like line evaluator of src/src/main.rs:            *)
(* Evaluator::process, Evaluator::evaluate and Evaluator::parse_word.      *)
(*                                                                         *)
(* A token is a sequence of one-character strings, so that the spelling of *)
(* a word (its letter case, its digits, its sign) is data the model reads. *)
(* A row is a sequence of tokens: what split_whitespace yields for a line. *)
(***************************************************************************)
EXTENDS Integers, Sequences, FiniteSets, TLC

VARIABLES
    overflow_checks, \* the build: TRUE when i64 arithmetic is compiled with overflow checks
    definitions,    \* Evaluator.definitions: word -> body (a sequence of Keywords)
    commands_iter,  \* process: the tokens of the row not yet taken by next()
    stack,          \* process: the local Vec<i64>
    cmd_stack,      \* process: the local Vec<Keyword> of pending operations
    keyword,        \* process: the Keyword being matched
    pc,             \* where the running call is: idle, next, dispatch, pop, panicked
    rows,           \* history: the rows passed to process so far, the running one last
    results         \* history: what each finished call returned

vars == <<overflow_checks, definitions, commands_iter, stack, cmd_stack, keyword, pc,
          rows, results>>

-----------------------------------------------------------------------------
(* Bounds of the model *)

\* The modelled width of the stack's integers; it stands for the 64 of i64.
IntBits == 8
\* The longest generated row, in tokens.
MaxLen == 3
\* The most calls of process in one generated session.
MaxCalls == 3

RECURSIVE Pow2(_)
Pow2(n) == IF n = 0 THEN 1 ELSE 2 * Pow2(n - 1)

\* i64::MAX and i64::MIN at the modelled width.
MaxI == Pow2(IntBits - 1) - 1
MinI == -Pow2(IntBits - 1)
InRange(v) == MinI <= v /\ v <= MaxI
\* Two's complement wrap-around of a mathematical result.
Wrap(v) == ((v - MinI) % Pow2(IntBits)) + MinI

-----------------------------------------------------------------------------
(* Keyword (main.rs 6-18) and the built-in table KEYWORDS (main.rs 20-29) *)

Kw(tag) == [tag |-> tag]
Number(n) == [tag |-> "Number", n |-> n]
UserCmd(name) == [tag |-> "UserCmd", name |-> name]
NoKeyword == [tag |-> "None"]

KEYWORDS ==
    <<"+">> :> Kw("Plus") @@
    <<"-">> :> Kw("Minus") @@
    <<"*">> :> Kw("Mul") @@
    <<"/">> :> Kw("Div") @@
    <<"d", "u", "p">> :> Kw("Dup") @@
    <<"o", "v", "e", "r">> :> Kw("Over") @@
    <<"d", "r", "o", "p">> :> Kw("Drop") @@
    <<"s", "w", "a", "p">> :> Kw("Swap")

-----------------------------------------------------------------------------
(* What a call of process can end with: Ok(stack), an anyhow error, a panic *)

Ok(s) == [kind |-> "Ok", stack |-> s]
\* bail!("too few arguments for '{:?}': {:?}", keyword, stack)
TooFewArguments(kw, s) ==
    [kind |-> "Err", error |-> "TooFewArguments", op |-> kw.tag, stack |-> s]
\* bail!("attempt to divide by zero")
DivideByZero == [kind |-> "Err", error |-> "DivideByZero"]
\* bail!("Unknown command: '{}'", name)
UnknownCommand(name) == [kind |-> "Err", error |-> "UnknownCommand", name |-> name]
\* bail!("unexpected keyword {:?}", keyword)
UnexpectedKeyword(kw) == [kind |-> "Err", error |-> "UnexpectedKeyword", op |-> kw.tag]
\* the ParseIntError of str::parse::<i64>, passed on by `?`; it carries no token
ParseIntError(why) == [kind |-> "Err", error |-> "ParseIntError", why |-> why]
\* an arithmetic panic: the call unwinds, nothing is returned
Panic(why) == [kind |-> "Panic", why |-> why]

-----------------------------------------------------------------------------
(* str::parse::<i64> (main.rs 121-124), digit by digit as core::num does it *)

DigitVal ==
    "0" :> 0 @@ "1" :> 1 @@ "2" :> 2 @@ "3" :> 3 @@ "4" :> 4 @@
    "5" :> 5 @@ "6" :> 6 @@ "7" :> 7 @@ "8" :> 8 @@ "9" :> 9

IsDigit(c) == c \in DOMAIN DigitVal

\* The accumulation loop: an invalid digit is reported where it is met, an
\* overflow of result * 10 or of the addition (subtraction for a negative
\* literal) as PosOverflow (NegOverflow).
RECURSIVE ParseDigits(_, _, _)
ParseDigits(digits, result, positive) ==
    IF digits = <<>> THEN [ok |-> TRUE, val |-> result]
    ELSE IF ~IsDigit(Head(digits)) THEN [ok |-> FALSE, why |-> "InvalidDigit"]
    ELSE LET x == DigitVal[Head(digits)]
             next == IF positive THEN result * 10 + x ELSE result * 10 - x
         IN  IF ~InRange(result * 10) \/ ~InRange(next)
             THEN [ok |-> FALSE, why |-> IF positive THEN "PosOverflow" ELSE "NegOverflow"]
             ELSE ParseDigits(Tail(digits), next, positive)

ParseI64(word) ==
    IF word = <<>> THEN [ok |-> FALSE, why |-> "Empty"]
    ELSE IF Head(word) \in {"+", "-"} /\ Len(word) = 1
         THEN [ok |-> FALSE, why |-> "InvalidDigit"]
    ELSE IF Head(word) = "+" THEN ParseDigits(Tail(word), 0, TRUE)
    ELSE IF Head(word) = "-" THEN ParseDigits(Tail(word), 0, FALSE)
    ELSE ParseDigits(word, 0, TRUE)

-----------------------------------------------------------------------------
(* Evaluator::parse_word (main.rs 116-127): the definition table first, with  *)
(* the token as spelled; then KEYWORDS, with the token as spelled; then i64.  *)

\* A resolution: [ok |-> TRUE, kw |-> Keyword] or [ok |-> FALSE, err |-> error]
parse_word(defs, word) ==
    IF word \in DOMAIN defs THEN [ok |-> TRUE, kw |-> UserCmd(word)]
    ELSE IF word \in DOMAIN KEYWORDS THEN [ok |-> TRUE, kw |-> KEYWORDS[word]]
    ELSE LET n == ParseI64(word)
         IN  IF n.ok THEN [ok |-> TRUE, kw |-> Number(n.val)]
             ELSE [ok |-> FALSE, err |-> ParseIntError(n.why)]

-----------------------------------------------------------------------------
(* Evaluator::evaluate (main.rs 77-114).  The value is the set of outcomes the *)
(* build can produce: Ok(stack after), an error, or a panic.                   *)

\* i64 `/`: the quotient truncated toward zero (b # 0).
Abs(v) == IF v < 0 THEN -v ELSE v
RustDiv(a, b) ==
    IF (a < 0) = (b < 0) THEN Abs(a) \div Abs(b) ELSE -(Abs(a) \div Abs(b))

\* stack.push(v) for an arithmetic result v: when v leaves the i64 range, a
\* build with overflow checks panics and one without them pushes the wrapped
\* value.
PushArith(rest, v, what) ==
    IF InRange(v) THEN {Ok(Append(rest, v))}
    ELSE IF overflow_checks THEN {Panic(what)}
    ELSE {Ok(Append(rest, Wrap(v)))}

\* A Div whose zero divisor yields 0 instead of the error.
DivArmZeroQuotient(rest, arg1, arg2) ==
    IF arg2 = 0 THEN {Ok(Append(rest, 0))}
    ELSE IF arg1 = MinI /\ arg2 = -1 THEN {Panic("attempt to divide with overflow")}
    ELSE {Ok(Append(rest, RustDiv(arg1, arg2)))}

\* Keyword::Div (main.rs 101-106); i64::MIN / -1 panics in every build.
DivArm(rest, arg1, arg2) ==
    IF arg2 = 0 THEN {DivideByZero}
    ELSE IF arg1 = MinI /\ arg2 = -1 THEN {Panic("attempt to divide with overflow")}
    ELSE {Ok(Append(rest, RustDiv(arg1, arg2)))}

\* An Over that copies the top element instead of the second.
OverArmCopiesTop(rest, arg1, arg2) == {Ok(rest \o <<arg1, arg2, arg2>>)}

\* Keyword::Over (main.rs 107)
OverArm(rest, arg1, arg2) == {Ok(rest \o <<arg1, arg2, arg1>>)}

\* Keyword::Swap (main.rs 108)
SwapArm(rest, arg1, arg2) == {Ok(rest \o <<arg2, arg1>>)}

\* The inner match on the two popped arguments (main.rs 97-110)
BinaryOp(rest, arg1, arg2, kw) ==
    CASE kw.tag = "Plus"  -> PushArith(rest, arg1 + arg2, "attempt to add with overflow")
      [] kw.tag = "Minus" -> PushArith(rest, arg1 - arg2, "attempt to subtract with overflow")
      [] kw.tag = "Mul"   -> PushArith(rest, arg1 * arg2, "attempt to multiply with overflow")
      [] kw.tag = "Div"   -> DivArm(rest, arg1, arg2)
      [] kw.tag = "Over"  -> OverArm(rest, arg1, arg2)
      [] kw.tag = "Swap"  -> SwapArm(rest, arg1, arg2)
      [] OTHER            -> {Panic("unreachable")}

\* A `_` arm that pops arg2 before it checks for arg1, so that the error of a
\* one-element stack reports the stack with the operand already taken.
BinaryArmPopsFirst(stk, kw) ==
    IF stk = <<>> THEN {TooFewArguments(kw, stk)}
    ELSE IF Len(stk) < 2 THEN {TooFewArguments(kw, SubSeq(stk, 1, Len(stk) - 1))}
    ELSE BinaryOp(SubSeq(stk, 1, Len(stk) - 2), stk[Len(stk) - 1], stk[Len(stk)], kw)

\* The `_` arm (main.rs 91-111): the length check, then both pops.
BinaryArm(stk, kw) ==
    IF Len(stk) < 2 THEN {TooFewArguments(kw, stk)}
    ELSE LET arg2 == stk[Len(stk)]
             arg1 == stk[Len(stk) - 1]
             rest == SubSeq(stk, 1, Len(stk) - 2)
         IN  BinaryOp(rest, arg1, arg2, kw)

\* Keyword::Drop (main.rs 80-84): pop; nothing was popped when pop gives None.
DropArm(stk, kw) ==
    IF stk = <<>> THEN {TooFewArguments(kw, stk)}
    ELSE {Ok(SubSeq(stk, 1, Len(stk) - 1))}

\* Keyword::Dup (main.rs 85-90): pop num, then push it twice.
DupArm(stk, kw) ==
    IF stk = <<>> THEN {TooFewArguments(kw, stk)}
    ELSE LET num == stk[Len(stk)]
         IN  {Ok(SubSeq(stk, 1, Len(stk) - 1) \o <<num, num>>)}

evaluate(stk, kw) ==
    CASE kw.tag \in {"Number", "UserCmd"} -> {UnexpectedKeyword(kw)}
      [] kw.tag = "Drop" -> DropArm(stk, kw)
      [] kw.tag = "Dup"  -> DupArm(stk, kw)
      [] OTHER           -> BinaryArm(stk, kw)

-----------------------------------------------------------------------------
(* The rows the caller passes to process *)

\* The decimal text of an integer, as the caller writes a literal.
DigitChar == <<"0", "1", "2", "3", "4", "5", "6", "7", "8", "9">>
RECURSIVE Digits(_)
Digits(n) ==
    IF n < 10 THEN <<DigitChar[n + 1]>>
    ELSE Digits(n \div 10) \o <<DigitChar[(n % 10) + 1]>>
Literal(n) == IF n < 0 THEN <<"-">> \o Digits(-n) ELSE Digits(n)

tColon == <<":">>
tSemi == <<";">>
tPlus == <<"+">>
tMinus == <<"-">>
tMul == <<"*">>
tDiv == <<"/">>
tDup == <<"d", "u", "p">>
tDrop == <<"d", "r", "o", "p">>
tSwap == <<"s", "w", "a", "p">>
tOver == <<"o", "v", "e", "r">>
tDUP == <<"D", "U", "P">>
tDupCap == <<"D", "u", "p">>
tDROP == <<"D", "R", "O", "P">>
tDropCap == <<"D", "r", "o", "p">>
tSWAP == <<"S", "W", "A", "P">>
tSwapCap == <<"S", "w", "a", "p">>
tOVER == <<"O", "V", "E", "R">>
tOverCap == <<"O", "v", "e", "r">>
tFoo == <<"f", "o", "o">>
tFOO == <<"F", "O", "O">>
tFooCap == <<"F", "o", "o">>
tBar == <<"b", "a", "r">>
tCountup == <<"c", "o", "u", "n", "t", "u", "p">>
tDupTwice == <<"d", "u", "p", "-", "t", "w", "i", "c", "e">>

\* Rows of exactly n tokens over a token set.
RowsOfLen(tokens, n) == [1..n -> tokens]
RowsUpTo(tokens, n) == UNION {RowsOfLen(tokens, k) : k \in 0..n}

\* Generated rows: every row of at most MaxLen tokens over these spellings.
GenTokens == {Literal(0), Literal(2), Literal(-3), tFoo, tDUP} \cup DOMAIN KEYWORDS
GenRows == RowsUpTo(GenTokens, MaxLen)

\* Arithmetic rows `5 a b op`: every sign combination, zero and both ends of
\* the integer range, under each two-operand word, above one untouched value.
ArithNums == {0, 1, -1, 2, -2, 7, -7, MaxI, MinI}
BinaryTokens == {tPlus, tMinus, tMul, tDiv, tSwap, tOver}
ArithRows ==
    {<<Literal(5), Literal(a), Literal(b), op>> : a \in ArithNums, b \in ArithNums,
                                                op \in BinaryTokens}

\* The sessions of the repository's tests (main.rs 144-227 and 237-520).
TestSessions == {
    <<<<Literal(10)>>, <<Literal(1), Literal(2), Literal(3)>>,
      <<Literal(1), Literal(3), Literal(-2)>>>>,
    <<<<Literal(3), Literal(9), tDiv>>, <<Literal(9), Literal(3), tDiv>>,
      <<Literal(9), Literal(0), tDiv>>>>,
    <<<<Literal(1), Literal(3), tOver>>, <<Literal(1), Literal(2), Literal(3), tOver>>,
      <<Literal(9), tOver>>>>,
    <<<<Literal(1), Literal(3), tSwap>>, <<Literal(1), Literal(2), Literal(3), tSwap>>,
      <<Literal(9), tSwap>>>>,
    <<<<Literal(1), Literal(2), Literal(3), Literal(4), Literal(5)>>>>,
    <<<<Literal(1), Literal(2), tPlus, Literal(4), tMinus>>>>,
    <<<<Literal(2), Literal(4), tMul, Literal(3), tDiv>>>>,
    <<<<tColon, tDupTwice, tDup, tDup, tSemi>>, <<Literal(1), tDupTwice>>>>,
    <<<<tColon, tCountup, Literal(1), Literal(2), Literal(3), tSemi>>, <<tCountup>>>>,
    <<<<tColon, tFoo, tDup, tSemi>>, <<tColon, tFoo, tDup, tDup, tSemi>>,
      <<Literal(1), tFoo>>>>,
    <<<<tColon, tSwap, tDup, tSemi>>, <<Literal(1), tSwap>>>>,
    <<<<tColon, tPlus, tMul, tSemi>>, <<Literal(3), Literal(4), tPlus>>>>,
    <<<<tColon, tFoo, Literal(5), tSemi>>, <<tColon, tBar, tFoo, tSemi>>,
      <<tColon, tFoo, Literal(6), tSemi>>, <<tBar, tFoo>>>>,
    <<<<tColon, tFoo, Literal(10), tSemi>>,
      <<tColon, tFoo, tFoo, Literal(1), tPlus, tSemi>>, <<tFoo>>>>,
    <<<<tColon, Literal(1), Literal(2), tSemi>>, <<Literal(1)>>>>,
    <<<<Literal(1), tDUP, tDupCap, tDup>>>>,
    <<<<Literal(1), Literal(2), Literal(3), Literal(4), tDROP, tDropCap, tDrop>>>>,
    <<<<Literal(1), Literal(2), tSWAP, Literal(3), tSwapCap, Literal(4), tSwap>>>>,
    <<<<Literal(1), Literal(2), tOVER, tOverCap, tOver>>>>,
    <<<<tColon, tFoo, tDup, tSemi>>, <<Literal(1), tFOO, tFooCap, tFoo>>>>,
    <<<<tColon, tSWAP, tDUP, tDupCap, tDup, tSemi>>, <<Literal(1), tSwap>>>>,
    <<<<tColon, tFoo, tDup, tSemi>>, <<tColon, tDup, Literal(1), tSemi>>,
      <<Literal(2), tFoo>>>> }

\* Sessions at the ends of the integer range: literals only, literals one
\* beyond the range, and the same overflowing sum twice.
EdgeSessions == {
    <<<<Literal(MinI), Literal(MaxI), Literal(-1)>>>>,
    <<<<Literal(MaxI + 1)>>>>,
    <<<<Literal(1), Literal(MinI - 1)>>>>,
    <<<<Literal(MaxI), Literal(1), tPlus>>, <<Literal(MaxI), Literal(1), tPlus>>>> }

\* Rows of generated sessions of up to MaxCalls calls.
SessionRows == {
    <<>>, <<Literal(1), Literal(2)>>, <<Literal(3)>>, <<tPlus>>, <<tDup>>,
    <<Literal(1), tPlus>> }

IsPrefix(s, t) == Len(s) <= Len(t) /\ SubSeq(t, 1, Len(s)) = s

AllRows ==
    GenRows \cup ArithRows \cup SessionRows
    \cup UNION {{t[i] : i \in 1..Len(t)} : t \in TestSessions \cup EdgeSessions}

\* The rows the caller may pass after the rows `past`: any row to a new
\* Evaluator; then the next row of a test or edge session, or, up to MaxCalls calls, a
\* session row after session rows.
NextRows(past) ==
    IF past = <<>> THEN AllRows
    ELSE {t[Len(past) + 1] : t \in {u \in TestSessions \cup EdgeSessions : Len(u) > Len(past) /\ IsPrefix(past, u)}}
         \cup (IF Len(past) < MaxCalls /\ \A i \in 1..Len(past) : past[i] \in SessionRows
               THEN SessionRows ELSE {})

-----------------------------------------------------------------------------
(* Evaluator::new (main.rs 36-40) and Evaluator::process (main.rs 42-75) *)

Init ==
    /\ overflow_checks \in BOOLEAN
    /\ definitions = <<>>
    /\ commands_iter = <<>>
    /\ stack = <<>>
    /\ cmd_stack = <<>>
    /\ keyword = NoKeyword
    /\ pc = "idle"
    /\ rows = <<>>
    /\ results = <<>>

\* A stack kept by the Evaluator and not rolled back: a call after one that
\* failed for too few arguments starts from the stack the failure reported.
NewStackKeepsFailed ==
    IF results # <<>> /\ results[Len(results)].kind = "Err"
       /\ results[Len(results)].error = "TooFewArguments"
    THEN results[Len(results)].stack ELSE <<>>

\* A stack kept by the Evaluator: a call starts from what the last successful
\* call returned.
NewStackKeepsLast ==
    IF results # <<>> /\ results[Len(results)].kind = "Ok"
    THEN results[Len(results)].stack ELSE <<>>

\* A push at the bottom of the stack instead of the top.
PushNumberFront(stk, n) == <<n>> \o stk

\* stack.push(n) of Keyword::Number (main.rs 56)
PushNumber(stk, n) == Append(stk, n)

\* let mut stack = Vec::new() (main.rs 45)
NewStack == <<>>

\* The call ends with r: its locals are dropped; a panic ends the session.
Finish(r) ==
    /\ results' = Append(results, r)
    /\ pc' = IF r.kind = "Panic" THEN "panicked" ELSE "idle"
    /\ commands_iter' = <<>>
    /\ stack' = <<>>
    /\ cmd_stack' = <<>>
    /\ keyword' = NoKeyword
    /\ UNCHANGED <<overflow_checks, definitions, rows>>

\* main.rs 43-46: the caller passes a row; the iterator and both locals are made.
Call(row) ==
    /\ pc = "idle"
    /\ row \in NextRows(rows)
    /\ rows' = Append(rows, row)
    /\ commands_iter' = row
    /\ stack' = NewStack
    /\ cmd_stack' = <<>>
    /\ keyword' = NoKeyword
    /\ pc' = "next"
    /\ UNCHANGED <<overflow_checks, definitions, results>>

\* main.rs 49-51: the row is exhausted, return Ok(stack).
ReturnOk ==
    /\ pc = "next"
    /\ commands_iter = <<>>
    /\ Finish(Ok(stack))

\* A resolver that enters a word it cannot resolve into the table, with an
\* empty body, before it returns the error.
ParseWordRegistersUnknown ==
    /\ pc = "next"
    /\ commands_iter # <<>>
    /\ LET r == parse_word(definitions, Head(commands_iter))
       IN  IF r.ok
           THEN /\ keyword' = r.kw
                /\ commands_iter' = Tail(commands_iter)
                /\ pc' = "dispatch"
                /\ UNCHANGED <<overflow_checks, definitions, stack, cmd_stack, rows, results>>
           ELSE /\ definitions' = (Head(commands_iter) :> <<>>) @@ definitions
                /\ results' = Append(results, r.err)
                /\ pc' = "idle"
                /\ commands_iter' = <<>>
                /\ stack' = <<>>
                /\ cmd_stack' = <<>>
                /\ keyword' = NoKeyword
                /\ UNCHANGED <<overflow_checks, rows>>

\* A resolver whose failure skips the token instead of returning the error.
ParseWordSkipsUnknown ==
    /\ pc = "next"
    /\ commands_iter # <<>>
    /\ LET r == parse_word(definitions, Head(commands_iter))
       IN  /\ keyword' = IF r.ok THEN r.kw ELSE keyword
           /\ commands_iter' = Tail(commands_iter)
           /\ pc' = IF r.ok THEN "dispatch" ELSE "next"
           /\ UNCHANGED <<overflow_checks, definitions, stack, cmd_stack, rows, results>>

\* main.rs 49 and 52: take the next token and resolve it; `?` returns its error.
ParseWord ==
    /\ pc = "next"
    /\ commands_iter # <<>>
    /\ LET r == parse_word(definitions, Head(commands_iter))
       IN  IF r.ok
           THEN /\ keyword' = r.kw
                /\ commands_iter' = Tail(commands_iter)
                /\ pc' = "dispatch"
                /\ UNCHANGED <<overflow_checks, definitions, stack, cmd_stack, rows, results>>
           ELSE Finish(r.err)

\* main.rs 54-67: the match on keyword.  A Number is pushed and breaks out of the
\* inner loop; a UserCmd appends its body to cmd_stack; anything else is evaluated.
Dispatch ==
    /\ pc = "dispatch"
    /\ IF keyword.tag = "Number"
       THEN /\ stack' = PushNumber(stack, keyword.n)
            /\ pc' = "next"
            /\ UNCHANGED <<overflow_checks, definitions, commands_iter, cmd_stack, keyword, rows, results>>
       ELSE IF keyword.tag = "UserCmd"
       THEN IF keyword.name \in DOMAIN definitions
            THEN /\ cmd_stack' = cmd_stack \o definitions[keyword.name]
                 /\ pc' = "pop"
                 /\ UNCHANGED <<overflow_checks, definitions, commands_iter, stack, keyword, rows, results>>
            ELSE Finish(UnknownCommand(keyword.name))
       ELSE \E r \in evaluate(stack, keyword) :
                IF r.kind = "Ok"
                THEN /\ stack' = r.stack
                     /\ pc' = "pop"
                     /\ UNCHANGED <<overflow_checks, definitions, commands_iter, cmd_stack, keyword, rows, results>>
                ELSE Finish(r)

\* main.rs 68-72: the next pending operation is popped from the end of cmd_stack;
\* with none pending the inner loop ends.
PopCmd ==
    /\ pc = "pop"
    /\ IF cmd_stack # <<>>
       THEN /\ keyword' = cmd_stack[Len(cmd_stack)]
            /\ cmd_stack' = SubSeq(cmd_stack, 1, Len(cmd_stack) - 1)
            /\ pc' = "dispatch"
            /\ UNCHANGED <<overflow_checks, definitions, commands_iter, stack, rows, results>>
       ELSE /\ pc' = "next"
            /\ UNCHANGED <<overflow_checks, definitions, commands_iter, stack, cmd_stack, keyword, rows, results>>

Next ==
    \/ \E row \in NextRows(rows) : Call(row)
    \/ ReturnOk
    \/ ParseWord
    \/ Dispatch
    \/ PopCmd

Spec == Init /\ [][Next]_vars

\* process runs to completion once called: no step of a running call waits.
FairSpec == Spec /\ WF_vars(ReturnOk \/ ParseWord \/ Dispatch \/ PopCmd)

-----------------------------------------------------------------------------
(* Shorthands for the claims *)

Calls == Len(results)
\* The session ran exactly the rows s and every call has returned.
Ran(s) == rows = s /\ Len(results) = Len(s)
Nums(s) == [i \in 1..Len(s) |-> Literal(s[i])]

TypeOK ==
    /\ pc \in {"idle", "next", "dispatch", "pop", "panicked"}
    /\ Len(results) <= Len(rows)
    /\ \A i \in 1..Len(stack) : InRange(stack[i])

-----------------------------------------------------------------------------
(* C1 - C5: user-defined words *)

S_countup == <<<<tColon, tCountup, Literal(1), Literal(2), Literal(3), tSemi>>, <<tCountup>>>>
S_dup_twice == <<<<tColon, tDupTwice, tDup, tDup, tSemi>>, <<Literal(1), tDupTwice>>>>
S_no_redefinition ==
    <<<<tColon, tFoo, Literal(5), tSemi>>, <<tColon, tBar, tFoo, tSemi>>,
      <<tColon, tFoo, Literal(6), tSemi>>, <<tBar, tFoo>>>>
S_redefine_builtin ==
    <<<<tColon, tFoo, tDup, tSemi>>, <<tColon, tDup, Literal(1), tSemi>>,
      <<Literal(2), tFoo>>>>
S_reuse ==
    <<<<tColon, tFoo, Literal(10), tSemi>>,
      <<tColon, tFoo, tFoo, Literal(1), tPlus, tSemi>>, <<tFoo>>>>
S_override_swap == <<<<tColon, tSwap, tDup, tSemi>>, <<Literal(1), tSwap>>>>
S_override_plus == <<<<tColon, tPlus, tMul, tSemi>>, <<Literal(3), Literal(4), tPlus>>>>
S_dup_case == <<<<Literal(1), tDUP, tDupCap, tDup>>>>
S_definition_case == <<<<tColon, tSWAP, tDUP, tDupCap, tDup, tSemi>>, <<Literal(1), tSwap>>>>

\* Every definition line of a finished session returned Ok.
DefinitionsSucceeded(s) == \A i \in 1..(Len(s) - 1) : results[i].kind = "Ok"

\* C1: after `: N B ;` succeeds, a row invoking N leaves what the row leaves
\* with N replaced by B, the body's operations in their written order:
\* `: countup 1 2 3 ;` then `countup` yields [1, 2, 3] (what `1 2 3` yields),
\* `: dup-twice dup dup ;` then `1 dup-twice` yields [1, 1, 1] (as `1 dup dup`).
C1_DefinedWordInlinesBody ==
    /\ Ran(S_countup) =>
          DefinitionsSucceeded(S_countup) /\ results[2] = Ok(<<1, 2, 3>>)
    /\ Ran(S_dup_twice) =>
          DefinitionsSucceeded(S_dup_twice) /\ results[2] = Ok(<<1, 1, 1>>)

\* C2: early binding: a redefinition changes only later invocations; a word
\* defined before it keeps the old meaning.  `: foo 5 ;`, `: bar foo ;`,
\* `: foo 6 ;` then `bar foo` yields [5, 6]; `: foo dup ;`, `: dup 1 ;` then
\* `2 foo` yields [2, 2].
C2_EarlyBinding ==
    /\ Ran(S_no_redefinition) => results[4] = Ok(<<5, 6>>)
    /\ Ran(S_redefine_builtin) => results[3] = Ok(<<2, 2>>)

\* C3: a definition line resolves its body against the table as it stood
\* before the line: `: foo 10 ;`, `: foo foo 1 + ;` then `foo` yields [11].
C3_RedefineWithPriorSelf ==
    Ran(S_reuse) => results[3] = Ok(<<11>>)

\* C4: a user definition of a built-in name takes precedence over the
\* built-in: after `: swap dup ;`, `1 swap` yields [1, 1]; after `: + * ;`,
\* `3 4 +` yields [12].
C4_UserWordShadowsBuiltin ==
    /\ Ran(S_override_swap) => results[2] = Ok(<<1, 1>>)
    /\ Ran(S_override_plus) => results[2] = Ok(<<12>>)

ToLower ==
    "A" :> "a" @@ "B" :> "b" @@ "C" :> "c" @@ "D" :> "d" @@ "E" :> "e" @@
    "F" :> "f" @@ "G" :> "g" @@ "H" :> "h" @@ "I" :> "i" @@ "J" :> "j" @@
    "K" :> "k" @@ "L" :> "l" @@ "M" :> "m" @@ "N" :> "n" @@ "O" :> "o" @@
    "P" :> "p" @@ "Q" :> "q" @@ "R" :> "r" @@ "S" :> "s" @@ "T" :> "t" @@
    "U" :> "u" @@ "V" :> "v" @@ "W" :> "w" @@ "X" :> "x" @@ "Y" :> "y" @@
    "Z" :> "z"
LowerCase(word) ==
    [i \in 1..Len(word) |-> IF word[i] \in DOMAIN ToLower THEN ToLower[word[i]] ELSE word[i]]

\* C5: token matching is case-insensitive: two spellings that differ only in
\* letter case resolve to the same operation, so `1 DUP Dup dup` yields
\* [1, 1, 1, 1] and `: SWAP DUP Dup dup ;` then `1 swap` yields [1, 1, 1, 1].
C5_CaseInsensitive ==
    /\ (pc = "next" /\ commands_iter # <<>>
            /\ LowerCase(Head(commands_iter)) \in DOMAIN KEYWORDS \ DOMAIN definitions) =>
          parse_word(definitions, Head(commands_iter))
              = [ok |-> TRUE, kw |-> KEYWORDS[LowerCase(Head(commands_iter))]]
    /\ Ran(S_dup_case) => results[1] = Ok(<<1, 1, 1, 1>>)
    /\ Ran(S_definition_case) => results[2] = Ok(<<1, 1, 1, 1>>)

-----------------------------------------------------------------------------
(* C6: the stack across calls *)

S_push_then_plus == <<<<Literal(1), Literal(2)>>, <<tPlus>>>>
IsLiteralRow(row) == \A i \in 1..Len(row) : ParseI64(row[i]).ok
RowValues(row) == [i \in 1..Len(row) |-> ParseI64(row[i]).val]

\* C6 as claimed: the stack persists across calls: a successful call returns
\* the values left by the earlier successful call with this row's effects on
\* top, so process("1 2") followed by process("+") returns [3].
C6_StackPersists ==
    /\ Ran(S_push_then_plus) => results[2] = Ok(<<3>>)
    /\ \A i \in 2..Len(results) :
          (results[i - 1].kind = "Ok" /\ IsLiteralRow(rows[i])) =>
              results[i] = Ok(results[i - 1].stack \o RowValues(rows[i]))

\* C6 as amended: the stack does not persist across calls: every call starts
\* from a new, empty stack, a successful call returns only what its own row
\* left (at most one value per token), and process("1 2") followed by
\* process("+") fails with too few arguments for Plus on the empty stack.
C6_StackFreshPerCall ==
    /\ (pc = "next" /\ Len(rows) > Len(results) /\ commands_iter = rows[Len(rows)]) =>
          stack = <<>>
    /\ \A i \in 1..Len(results) :
          results[i].kind = "Ok" => Len(results[i].stack) <= Len(rows[i])
    /\ \A i \in 1..Len(results) :
          (results[i].kind = "Ok" /\ IsLiteralRow(rows[i])) =>
              results[i].stack = RowValues(rows[i])
    /\ Ran(S_push_then_plus) => results[2] = TooFewArguments(Kw("Plus"), <<>>)

C6_Witness ==
    /\ Ran(S_push_then_plus)
    /\ results[1] = Ok(<<1, 2>>)
    /\ results[2] = TooFewArguments(Kw("Plus"), <<>>)

-----------------------------------------------------------------------------
(* C7 - C10: the eight primitives, one step of evaluate at a time *)

\* The operation about to be executed and its operands: arg2 is the top of the
\* stack, arg1 the value under it.
Executing(tags) == pc = "dispatch" /\ keyword.tag \in tags
Top == stack[Len(stack)]
Second == stack[Len(stack) - 1]
Below(n) == SubSeq(stack, 1, Len(stack) - n)
\* The operation succeeded and left the stack s.
Leaves(s) == pc' = "pop" /\ stack' = s /\ results' = results
\* The call ended with the error e.
FailsWith(e) == pc' = "idle" /\ results' = Append(results, e) /\ stack' = <<>>

\* The quotient of a by b (b # 0) truncated toward zero: the integer q of the
\* sign of a/b whose magnitude is the largest with |q| * |b| <= |a|.
TruncQuotient(a, b) ==
    CHOOSE q \in -Abs(a)..Abs(a) :
        /\ Abs(q) * Abs(b) <= Abs(a)
        /\ Abs(a) < (Abs(q) + 1) * Abs(b)
        /\ (q > 0 => (a < 0) = (b < 0))
        /\ (q < 0 => (a < 0) # (b < 0))

\* C7: for all integers a then b on the stack, + - * / pop both and push the
\* one result a+b, a-b, a*b, or for b # 0 the quotient truncated toward zero,
\* leaving the elements below unchanged.
C7_BinaryArithmetic ==
    [][(Executing({"Plus", "Minus", "Mul", "Div"}) /\ Len(stack) >= 2
            /\ (keyword.tag = "Div" => Top # 0)) =>
        Leaves(Below(2) \o
               <<CASE keyword.tag = "Plus"  -> Second + Top
                   [] keyword.tag = "Minus" -> Second - Top
                   [] keyword.tag = "Mul"   -> Second * Top
                   [] keyword.tag = "Div"   -> TruncQuotient(Second, Top)>>)]_vars

\* C8: Divide with at least two operands and a zero divisor on top fails with
\* DivideByZero for every dividend, and no result is pushed or returned.
C8_DivideByZero ==
    [][(Executing({"Div"}) /\ Len(stack) >= 2 /\ Top = 0) =>
        FailsWith(DivideByZero)]_vars

C8_Witness ==
    \E i \in 1..Len(results) :
        /\ rows[i] = <<Literal(5), Literal(-7), Literal(0), tDiv>>
        /\ results[i] = DivideByZero

\* C9: dup turns [.. a] into [.. a a], drop [.. a] into [..], swap [.. a b]
\* into [.. b a], over [.. a b] into [.. a b a]; the elements below the
\* operands are unchanged.
C9_StackWords ==
    [][/\ (Executing({"Dup"}) /\ Len(stack) >= 1) => Leaves(Below(1) \o <<Top, Top>>)
       /\ (Executing({"Drop"}) /\ Len(stack) >= 1) => Leaves(Below(1))
       /\ (Executing({"Swap"}) /\ Len(stack) >= 2) => Leaves(Below(2) \o <<Top, Second>>)
       /\ (Executing({"Over"}) /\ Len(stack) >= 2) =>
              Leaves(Below(2) \o <<Second, Top, Second>>)]_vars

C9_Witness ==
    /\ \E i \in 1..Len(results) :
          /\ rows[i] = <<Literal(1), Literal(2), Literal(3), tOver>>
          /\ results[i] = Ok(<<1, 2, 3, 2>>)
    /\ \E i \in 1..Len(results) :
          /\ rows[i] = <<Literal(1), Literal(3), tOver>>
          /\ results[i] = Ok(<<1, 3, 1>>)

\* The operands each primitive requires.
Required(tag) == IF tag \in {"Dup", "Drop"} THEN 1 ELSE 2
Primitives == {"Plus", "Minus", "Mul", "Div", "Over", "Swap", "Dup", "Drop"}

\* C10: a primitive executed with fewer operands than it requires fails with
\* the too-few-arguments error, which names the operation and carries the stack
\* exactly as it was before the operation, nothing popped.
C10_InsufficientOperands ==
    [][(Executing(Primitives) /\ Len(stack) < Required(keyword.tag)) =>
        FailsWith(TooFewArguments(keyword, stack))]_vars

C10_Witness ==
    /\ \E i \in 1..Len(results) :
          /\ rows[i] = <<Literal(9), tOver>>
          /\ results[i] = [kind |-> "Err", error |-> "TooFewArguments",
                           op |-> "Over", stack |-> <<9>>]
    /\ Len(results) = 3

-----------------------------------------------------------------------------
(* C11 - C13: unknown words, numeric names, literals *)

\* The row of the running (or last) call.
CurrentRow == rows[Len(rows)]
\* A line that begins with `:` and ends with `;`.
IsDefinitionLine(row) == Len(row) >= 2 /\ row[1] = tColon /\ row[Len(row)] = tSemi
\* Neither a defined word, nor a built-in in any letter case, nor a numeral
\* (a numeral beyond the integer range is not counted as a word).
IsUnknownWord(word) ==
    /\ word \notin DOMAIN definitions
    /\ LowerCase(word) \notin DOMAIN KEYWORDS
    /\ ~ParseI64(word).ok
    /\ ParseI64(word).why = "InvalidDigit"

\* C11: in an execution line, a token that is no defined word, no built-in
\* and no base-10 integer, met after every token to its left has executed,
\* ends the call with UnknownCommand carrying that token.
C11_UnknownCommand ==
    [][(pc = "next" /\ commands_iter # <<>> /\ ~IsDefinitionLine(CurrentRow)
            /\ IsUnknownWord(Head(commands_iter))) =>
        FailsWith(UnknownCommand(Head(commands_iter)))]_vars

\* The error the specification names for a definition line that is refused.
IllegalDefinition == [kind |-> "Err", error |-> "IllegalDefinition"]
S_redefine_numbers == <<<<tColon, Literal(1), Literal(2), tSemi>>, <<Literal(1)>>>>

\* C12: a definition line whose name token parses as an integer fails with
\* IllegalDefinition and creates no table entry, so the numeric token still
\* pushes its own value: `: 1 2 ;` fails with IllegalDefinition and a later
\* `1` yields [1].
C12_NumericNameRejected ==
    /\ \A i \in 1..Len(results) :
          (IsDefinitionLine(rows[i]) /\ ParseI64(rows[i][2]).ok) =>
              results[i] = IllegalDefinition
    /\ Ran(S_redefine_numbers) => (definitions = <<>> /\ results[2] = Ok(<<1>>))

\* C13: a line of valid integer literals only, negative ones included, pushes
\* them left to right: after each token the stack holds the values of the
\* tokens taken so far in input order, and the call returns all of them in
\* input order (`1 3 -2` yields [1, 3, -2]).
C13_LiteralsInInputOrder ==
    /\ (pc = "next" /\ IsLiteralRow(CurrentRow)) =>
          /\ Len(stack) = Len(CurrentRow) - Len(commands_iter)
          /\ \A j \in 1..Len(stack) : Literal(stack[j]) = CurrentRow[j]
    /\ \A i \in 1..Len(results) :
          IsLiteralRow(rows[i]) =>
              /\ results[i].kind = "Ok"
              /\ Len(results[i].stack) = Len(rows[i])
              /\ \A j \in 1..Len(rows[i]) : Literal(results[i].stack[j]) = rows[i][j]

C13_Witness ==
    /\ \E i \in 1..Len(results) :
          /\ rows[i] = <<Literal(1), Literal(3), Literal(-2)>>
          /\ results[i] = Ok(<<1, 3, -2>>)
    /\ Len(results) = 3

-----------------------------------------------------------------------------
(* C14: what a call returns depends on its own row only *)

S_test_div ==
    <<<<Literal(3), Literal(9), tDiv>>, <<Literal(9), Literal(3), tDiv>>,
      <<Literal(9), Literal(0), tDiv>>>>

\* C14: what process returns for a line is determined by that line (and the
\* definition table, which never changes) alone: the same row returns the
\* same result wherever it stands in a session, and values left by earlier
\* lines never appear: process("3 9 /") returns [0] and the following
\* process("9 3 /") returns [3], not [0, 3].
C14_ResultDependsOnRowOnly ==
    /\ \A i, j \in 1..Len(results) : rows[i] = rows[j] => results[i] = results[j]
    /\ (Len(results) >= 2 /\ IsPrefix(rows, S_test_div)) =>
          (results[1] = Ok(<<0>>) /\ results[2] = Ok(<<3>>))

C14_Witness ==
    /\ Ran(S_test_div)
    /\ results[2] = Ok(<<3>>)
    /\ results[3] = DivideByZero

-----------------------------------------------------------------------------
(* C16: the first failing token ends the call *)

\* The place in the row of the token being resolved (pc = "next") or executed.
TokenPos ==
    IF pc = "next" THEN Len(CurrentRow) - Len(commands_iter) + 1
    ELSE Len(CurrentRow) - Len(commands_iter)
\* This step ends the running call with an error.
CallFails == Len(results') = Len(results) + 1 /\ results'[Len(results')].kind = "Err"

\* C16: a call fails at the first failing token, left to right: when a step
\* ends the call with an error, every token to the left of the current one
\* resolved, the error is the current token's own (its resolution error, or
\* the error of executing it on the stack the earlier tokens left), nothing
\* of the rest of the line is resolved or executed, and no stack is returned.
C16_FirstErrorAborts ==
    [][CallFails =>
        LET e == results'[Len(results')]
            r == parse_word(definitions, CurrentRow[TokenPos])
        IN  /\ \A j \in 1..(TokenPos - 1) : parse_word(definitions, CurrentRow[j]).ok
            /\ IF pc = "next" THEN ~r.ok /\ e = r.err
               ELSE r.ok /\ r.kw = keyword /\ e \in evaluate(stack, keyword)
            /\ pc' = "idle" /\ commands_iter' = <<>> /\ stack' = <<>>
            /\ Len(results') = Len(rows)]_vars

\* `2 + foo` reports the arity failure of +, not the unknown word.
C16_Witness ==
    \E i \in 1..Len(results) :
        /\ rows[i] = <<Literal(2), tPlus, tFoo>>
        /\ results[i] = TooFewArguments(Kw("Plus"), <<2>>)

-----------------------------------------------------------------------------
(* C17: what a failed call leaves behind *)

S_fail_then_push == <<<<Literal(1), tPlus>>, <<Literal(3)>>>>
IsTooFew(r) == r.kind = "Err" /\ r.error = "TooFewArguments"

\* C17 as claimed: a failed call is not line-atomic: the values pushed by the
\* earlier tokens of a line that failed for insufficient operands remain on
\* the stack and are part of the result of the next successful call: after
\* `1 +` has failed, `3` returns [1, 3].
C17_FailedCallKeepsPushes ==
    /\ Ran(S_fail_then_push) => results[2] = Ok(<<1, 3>>)
    /\ (Len(results) >= 2 /\ IsTooFew(results[1]) /\ IsLiteralRow(rows[2])) =>
          results[2] = Ok(results[1].stack \o RowValues(rows[2]))

\* C17 as amended: a failed call leaves nothing behind: the values pushed by
\* the earlier tokens of a line that failed for insufficient operands are in
\* the error's stack snapshot only and are dropped with the call; the next
\* successful call returns the values of its own line alone: `1 +` fails
\* reporting [1], and a following `3` returns [3].
C17_FailedCallLeavesNothing ==
    /\ (pc = "idle" /\ results # <<>> /\ results[Len(results)].kind = "Err") =>
          stack = <<>>
    /\ \A i \in 2..Len(results) :
          (IsTooFew(results[i - 1]) /\ IsLiteralRow(rows[i])) =>
              results[i] = Ok(RowValues(rows[i]))
    /\ Ran(S_fail_then_push) =>
          (results[1] = TooFewArguments(Kw("Plus"), <<1>>) /\ results[2] = Ok(<<3>>))

C17_Witness ==
    /\ Ran(S_fail_then_push)
    /\ results[1] = TooFewArguments(Kw("Plus"), <<1>>)
    /\ results[2] = Ok(<<3>>)

-----------------------------------------------------------------------------
(* C18: the definition table under execution lines *)

\* C18: an execution line, successful or failed, leaves the definition table
\* unchanged: a step changes the table only within a definition line, and no
\* step removes an entry.
C18_ExecutionLeavesTable ==
    [][/\ ~IsDefinitionLine(rows'[Len(rows')]) => definitions' = definitions
       /\ DOMAIN definitions \subseteq DOMAIN definitions']_vars

\* An execution line has succeeded and one has failed on the same Evaluator.
C18_Witness ==
    /\ pc = "idle"
    /\ \E i \in 1..Len(results) : ~IsDefinitionLine(rows[i]) /\ results[i].kind = "Ok"
    /\ \E i \in 1..Len(results) : ~IsDefinitionLine(rows[i]) /\ results[i].kind = "Err"
    /\ definitions = <<>>

-----------------------------------------------------------------------------
(* C19, C20: how a call ends *)

Running == pc \in {"next", "dispatch", "pop"}

\* C19: every call of process terminates by returning: a running call can
\* always take its next step, and every call that is no longer running has
\* returned either the stack or an error.
C19_EveryCallReturns ==
    /\ Running => ENABLED (ReturnOk \/ ParseWord \/ Dispatch \/ PopCmd)
    /\ ~Running =>
          /\ Len(results) = Len(rows)
          /\ \A i \in 1..Len(results) : results[i].kind \in {"Ok", "Err"}

\* Every running call ends (it returns or it is aborted): each step takes a
\* token of the row or an operation of cmd_stack.
CallsEnd == Running ~> ~Running

\* C20: process never ends outside its two outcomes: on operands of the
\* integer range Add, Subtract, Multiply and Divide either push a result
\* that is itself in the range or end the call with an error; no overflowing
\* sum, difference or product and no quotient of the minimum by -1 panics or
\* leaves an out-of-range value.
C20_ArithmeticNeverPanics ==
    [][Executing({"Plus", "Minus", "Mul", "Div"}) =>
        /\ pc' # "panicked"
        /\ \A k \in 1..Len(stack') : InRange(stack'[k])
        /\ \/ pc' = "pop" /\ results' = results
           \/ pc' = "idle" /\ results'[Len(results')].kind = "Err"]_vars

====
